---- MODULE Spec2Model ----
(***************************************************************************)
(* A model of dagraph.py: the DAGraph vertex/edge store, its mutation      *)
(* operations, the work-list traversals get_all_successors and             *)
(* get_all_predecessors, and Tarjan's strongly-connected-components walk   *)
(* behind is_cyclic.                                                       *)
(*                                                                         *)
(* Python values are named by TLA+ strings: "a", "b" and "ab" are the str  *)
(* keys 'a', 'b' and 'ab'; "i1" is the int key 1; "None" is None.          *)
(***************************************************************************)
EXTENDS Integers, Sequences, FiniteSets, TLC

\* ------------------------------------------------------------------ bounds

\* Keys that add_vertex is called with: two str keys and one int key.
Keys == {"a", "ab", "i1"}

\* Keys that are Python strings ('b' is only ever met as a character of 'ab').
StrKeys == {"a", "b", "ab"}

\* Keys that add_edge / the queries are called with.
ArgKeys == Keys \cup {"b"}

\* Values that add_vertex is called with (None is the default).
Values == {"None", "x"}

\* Most source keys one add_edges call is given, as positional arguments or as
\* one list.
MaxSrcs == 2

\* Longest work list the traversals are followed to.
MaxWork == 4

\* Longest iterable a UniqueStack is constructed from.
MaxInit == 2

\* A recursion limit that graphs of three vertices exceed.
LowLimit == 2

VARIABLES
    vertices,       \* DAGraph.vertices: key -> DAGraphVertex
    order,          \* insertion order of the dict DAGraph.vertices
    direct_cyclic,  \* DAGraph.direct_cyclic
    last,           \* the most recent call: its name, argument and outcome
    pc,             \* "idle", or the query that is running
    node_st,        \* tarjans: key -> (discovery index, low-link)
    idx,            \* tarjans: the discovery counter
    stack,          \* tarjans: the UniqueStack; in SpecStack, a UniqueStack used
                    \* on its own
    scc_list,       \* tarjans: the components found so far
    elems,          \* tarjans: the roots not yet iterated
    frames,         \* tarjans: the active calls of strongconnect, innermost last
    work,           \* get_all_*: the local list `stack`
    found,          \* get_all_*: the local set `successors` / `deps`
    passes,         \* history: the number of passes of `while stack` made by the
                    \* running traversal, modulo 2 (a pass that leaves the
                    \* locals as they were is a step all the same)
    answers,        \* history: (use_rng, result) of every is_cyclic call made on
                    \* the graph as it is now
    limit           \* the interpreter's recursion limit, as the number of nested
                    \* strongconnect calls the call stack has room for

graph == <<vertices, order, direct_cyclic>>
tarjan == <<node_st, idx, stack, scc_list, elems, frames>>
walk == <<work, found, passes>>
vars == <<vertices, order, direct_cyclic, last, pc, node_st, idx, stack, scc_list,
          elems, frames, work, found, passes, answers, limit>>

\* ------------------------------------------------------------------ helpers

Range(s) == {s[i] : i \in 1..Len(s)}

\* Sequences over S of length lo..hi.
SeqsOf(S, lo, hi) == UNION {[1..n -> S] : n \in lo..hi}

\* The graph as one value.
G == [vertices |-> vertices, order |-> order, direct_cyclic |-> direct_cyclic]

\* What a call returned: the boolean of is_cyclic, the list of keys of
\* get_all_* and get_direct_*, the list of components of tarjans, the one
\* value of g[key], pop and peek; None is NoRet.
NoRet == [bool |-> FALSE, keys |-> <<>>, sccs |-> <<>>, value |-> "None"]
Bool(b) == [NoRet EXCEPT !.bool = b]
Value(v) == [NoRet EXCEPT !.value = v]
KeyList(ks) == [NoRet EXCEPT !.keys = ks]
SccList(cs) == [NoRet EXCEPT !.sccs = cs]

\* A call record: the operation, its argument (key for a query, use_rng for
\* is_cyclic and tarjans), whether it raised, and what it returned.
Call(op, key, use_rng, raised, ret) ==
    [op |-> op, key |-> key, use_rng |-> use_rng, raised |-> raised, ret |-> ret]

\* The orders a set can be iterated in, and the orders random.shuffle can leave
\* a list in.
Perms(S) == {s \in [1..Cardinality(S) -> S] : \A i, j \in DOMAIN s : s[i] = s[j] => i = j}

\* ------------------------------------------------------------------ vertices

DAGraphVertex(key, value) ==
    [key |-> key, value |-> value, successors |-> {}, predecessors |-> {}]

\* the edge recorded on the source's side only
add_edge_to_one_side(vs, self, other) ==
    [vs EXCEPT ![self].successors = @ \cup {vs[other].key}]

\* self.successors.add(other.key); other.predecessors.add(self.key)
add_edge_to(vs, self, other) ==
    LET v1 == [vs EXCEPT ![self].successors = @ \cup {vs[other].key}]
    IN  [v1 EXCEPT ![other].predecessors = @ \cup {v1[self].key}]

\* ------------------------------------------------------------------ mutation

\* DAGraph.__init__
NewGraph == [vertices |-> <<>>, order |-> <<>>, direct_cyclic |-> FALSE]

\* self.vertices[key] = DAGraphVertex(key, value): a new key goes last in the
\* dict's order.
dict_set(g, key, vertex) ==
    [g EXCEPT !.vertices = [k \in DOMAIN g.vertices \cup {key} |->
                               IF k = key THEN vertex ELSE g.vertices[k]],
              !.order = IF key \in DOMAIN g.vertices THEN @ ELSE Append(@, key)]

\* a fresh vertex stored under the key whether or not the key is present
add_vertex_overwrite(g, key, value) ==
    [g |-> dict_set(g, key, DAGraphVertex(key, value)), raised |-> FALSE]

\* add_vertex: raises for a key that is present
add_vertex(g, key, value) ==
    IF key \in DOMAIN g.vertices
    THEN [g |-> g, raised |-> TRUE]
    ELSE [g |-> dict_set(g, key, DAGraphVertex(key, value)), raised |-> FALSE]

\* the self-loop flag set before the keys are looked up
add_edge_flag_first(g, dst, src) ==
    LET g1 == IF src = dst THEN [g EXCEPT !.direct_cyclic = TRUE] ELSE g
    IN  IF src \notin DOMAIN g.vertices THEN [g |-> g1, raised |-> TRUE]
        ELSE IF dst \notin DOMAIN g.vertices THEN [g |-> g1, raised |-> TRUE]
        ELSE [g |-> [g1 EXCEPT !.vertices = add_edge_to(g1.vertices, src, dst)],
              raised |-> FALSE]

\* the self-loop flag never set
add_edge_no_flag(g, dst, src) ==
    IF src \notin DOMAIN g.vertices THEN [g |-> g, raised |-> TRUE]
    ELSE IF dst \notin DOMAIN g.vertices THEN [g |-> g, raised |-> TRUE]
    ELSE [g |-> [g EXCEPT !.vertices = add_edge_to(g.vertices, src, dst)],
          raised |-> FALSE]

\* the self-loop flag set by every edge
add_edge_always_flag(g, dst, src) ==
    IF src \notin DOMAIN g.vertices THEN [g |-> g, raised |-> TRUE]
    ELSE IF dst \notin DOMAIN g.vertices THEN [g |-> g, raised |-> TRUE]
    ELSE [g |-> [g EXCEPT !.direct_cyclic = TRUE,
                          !.vertices = add_edge_to(g.vertices, src, dst)],
          raised |-> FALSE]

add_edge(g, dst, src) ==
    IF src \notin DOMAIN g.vertices THEN [g |-> g, raised |-> TRUE]
    ELSE IF dst \notin DOMAIN g.vertices THEN [g |-> g, raised |-> TRUE]
    ELSE LET g1 == IF src = dst THEN [g EXCEPT !.direct_cyclic = TRUE] ELSE g
         IN  [g |-> [g1 EXCEPT !.vertices = add_edge_to(g1.vertices, src, dst)],
              raised |-> FALSE]

\* An argument of add_edges: one key, or a list of keys.
KeyArg(k) == [list |-> FALSE, items |-> <<k>>]
ListArg(s) == [list |-> TRUE, items |-> s]

\* iter(str): the characters of a str key.
Chars(k) == IF k = "ab" THEN <<"a", "b">> ELSE <<k>>

\* isinstance(src, Iterable): a list is iterable, and so is a str.
IsIterable(arg) == arg.list \/ arg.items[1] \in StrKeys

\* What `for e in src` yields.
Iterate(arg) == IF arg.list THEN arg.items ELSE Chars(arg.items[1])

\* for e in src: self.add_edge(dst, e)  -- stops at the first raise
RECURSIVE add_edge_each(_, _, _)
add_edge_each(g, dst, es) ==
    IF es = <<>> THEN [g |-> g, raised |-> FALSE]
    ELSE LET r == add_edge(g, dst, Head(es))
         IN  IF r.raised THEN r ELSE add_edge_each(r.g, dst, Tail(es))

\* for src in srcs: ...  -- stops at the first raise
RECURSIVE add_edges(_, _, _)
add_edges(g, dst, srcs) ==
    IF srcs = <<>> THEN [g |-> g, raised |-> FALSE]
    ELSE LET src == Head(srcs)
             r == IF IsIterable(src)
                  THEN add_edge_each(g, dst, Iterate(src))
                  ELSE add_edge(g, dst, src.items[1])
         IN  IF r.raised THEN r ELSE add_edges(r.g, dst, Tail(srcs))

SetGraph(g) ==
    /\ vertices' = g.vertices
    /\ order' = g.order
    /\ direct_cyclic' = g.direct_cyclic

\* The two calling conventions of add_edges: add_edges(dst, k1, ..., kn) and
\* add_edges(dst, [k1, ..., kn]).
Positional(ks) == [i \in 1..Len(ks) |-> KeyArg(ks[i])]
AsList(ks) == <<ListArg(ks)>>
SrcLists == SeqsOf(Keys, 0, MaxSrcs)
EdgeArgs == {Positional(ks) : ks \in SrcLists} \cup {AsList(ks) : ks \in SrcLists}

AddVertex(key, value) ==
    /\ pc = "idle"
    /\ LET r == add_vertex(G, key, value)
       IN  /\ SetGraph(r.g)
           /\ last' = Call("add_vertex", "-", FALSE, r.raised, NoRet)
           /\ answers' = IF r.g = G THEN answers ELSE {}
    /\ UNCHANGED <<pc, tarjan, walk, limit>>

AddEdge(dst, src) ==
    /\ pc = "idle"
    /\ LET r == add_edge(G, dst, src)
       IN  /\ SetGraph(r.g)
           /\ last' = Call("add_edge", "-", FALSE, r.raised, NoRet)
           /\ answers' = IF r.g = G THEN answers ELSE {}
    /\ UNCHANGED <<pc, tarjan, walk, limit>>

AddEdges(dst, srcs) ==
    /\ pc = "idle"
    /\ LET r == add_edges(G, dst, srcs)
       IN  /\ SetGraph(r.g)
           /\ last' = Call("add_edges", "-", FALSE, r.raised, NoRet)
           /\ answers' = IF r.g = G THEN answers ELSE {}
    /\ UNCHANGED <<pc, tarjan, walk, limit>>

\* the indexed write storing the vertex whether or not the key is present
setitem_overwrite(g, key, value) ==
    [g |-> dict_set(g, key, DAGraphVertex(key, value)), raised |-> FALSE]

\* DAGraph.__setitem__: self.add_vertex(key, value)
setitem(g, key, value) == add_vertex(g, key, value)

\* DAGraph.__getitem__: self.vertices[key].value, KeyError for an absent key
getitem(g, key) ==
    IF key \notin DOMAIN g.vertices
    THEN [ret |-> "None", raised |-> TRUE]
    ELSE [ret |-> g.vertices[key].value, raised |-> FALSE]

\* g[key] = value
SetItem(key, value) ==
    /\ pc = "idle"
    /\ LET r == setitem(G, key, value)
       IN  /\ SetGraph(r.g)
           /\ last' = Call("__setitem__", key, FALSE, r.raised, NoRet)
           /\ answers' = IF r.g = G THEN answers ELSE {}
    /\ UNCHANGED <<pc, tarjan, walk, limit>>

\* g[key]
GetItem(key) ==
    /\ pc = "idle"
    /\ LET r == getitem(G, key)
       IN  last' = Call("__getitem__", key, FALSE, r.raised, Value(r.ret))
    /\ UNCHANGED <<graph, pc, tarjan, walk, answers, limit>>

\* ------------------------------------------------------------------ UniqueStack

\* UniqueStack(): an empty deque and an empty set
UniqueStack == [stack |-> <<>>, stackset |-> {}]

\* every key taken to be on the stack
contains_always(s, key) == TRUE

\* UniqueStack.__contains__
contains(s, key) == key \in s.stackset

\* push that appends without recording the membership
push_forgets_member(s, item) ==
    IF item \in s.stackset
    THEN [s |-> s, raised |-> TRUE]
    ELSE [s |-> [stack |-> Append(s.stack, item), stackset |-> s.stackset],
          raised |-> FALSE]

\* UniqueStack.push: raises when the item is in the set
push(s, item) ==
    IF item \in s.stackset
    THEN [s |-> s, raised |-> TRUE]
    ELSE [s |-> [stack |-> Append(s.stack, item), stackset |-> s.stackset \cup {item}],
          raised |-> FALSE]

\* pop with the membership set left as it was
pop_keeps_member(s) ==
    IF s.stack = <<>>
    THEN [s |-> s, ret |-> "None", raised |-> TRUE]
    ELSE [s |-> [stack |-> SubSeq(s.stack, 1, Len(s.stack) - 1), stackset |-> s.stackset],
          ret |-> s.stack[Len(s.stack)], raised |-> FALSE]

\* UniqueStack.pop: deque.pop raises on an empty deque
pop(s) ==
    IF s.stack = <<>>
    THEN [s |-> s, ret |-> "None", raised |-> TRUE]
    ELSE LET to_return == s.stack[Len(s.stack)]
         IN  [s |-> [stack |-> SubSeq(s.stack, 1, Len(s.stack) - 1),
                     stackset |-> s.stackset \ {to_return}],
              ret |-> to_return, raised |-> FALSE]

\* the oldest element instead of the newest
peek_first(s) ==
    IF s.stack = <<>>
    THEN [ret |-> "None", raised |-> TRUE]
    ELSE [ret |-> s.stack[1], raised |-> FALSE]

\* UniqueStack.peek: deque[-1] raises on an empty deque
peek(s) ==
    IF s.stack = <<>>
    THEN [ret |-> "None", raised |-> TRUE]
    ELSE [ret |-> s.stack[Len(s.stack)], raised |-> FALSE]

\* UniqueStack(iterable): the deque takes every element, the set takes each
\* once, and the constructor raises when the two lengths differ.  A falsy
\* iterable (the empty list) is skipped.
UniqueStackOf(iterable) ==
    LET s == IF iterable # <<>>
             THEN [stack |-> iterable, stackset |-> Range(iterable)]
             ELSE UniqueStack
    IN  [s |-> s, raised |-> Len(s.stack) # Cardinality(s.stackset)]

\* Iterables a UniqueStack is constructed from, and items it is given.
Items == ArgKeys
Iterables == SeqsOf(Items, 0, MaxInit)

\* s = UniqueStack(iterable): when the constructor raises there is no new
\* object and the name keeps the one it had.
StackNew(iterable) ==
    /\ pc = "idle"
    /\ LET r == UniqueStackOf(iterable)
       IN  /\ stack' = IF r.raised THEN stack ELSE r.s
           /\ last' = Call("UniqueStack", "-", FALSE, r.raised, NoRet)
    /\ UNCHANGED <<graph, pc, node_st, idx, scc_list, elems, frames, walk, answers, limit>>

\* s.push(item)
StackPush(item) ==
    /\ pc = "idle"
    /\ LET r == push(stack, item)
       IN  /\ stack' = r.s
           /\ last' = Call("push", item, FALSE, r.raised, NoRet)
    /\ UNCHANGED <<graph, pc, node_st, idx, scc_list, elems, frames, walk, answers, limit>>

\* s.pop()
StackPop ==
    /\ pc = "idle"
    /\ LET r == pop(stack)
       IN  /\ stack' = r.s
           /\ last' = Call("pop", "-", FALSE, r.raised, Value(r.ret))
    /\ UNCHANGED <<graph, pc, node_st, idx, scc_list, elems, frames, walk, answers, limit>>

\* s.peek()
StackPeek ==
    /\ pc = "idle"
    /\ LET r == peek(stack)
       IN  last' = Call("peek", "-", FALSE, r.raised, Value(r.ret))
    /\ UNCHANGED <<graph, pc, tarjan, walk, answers, limit>>

\* ------------------------------------------------------------------ tarjans

Min(a, b) == IF a <= b THEN a ELSE b

\* d[key] = val on a dict
Put(d, key, val) == [k \in DOMAIN d \cup {key} |-> IF k = key THEN val ELSE d[k]]

\* The local state of one tarjans() call as one value.
T == [node_st |-> node_st, idx |-> idx, stack |-> stack, scc_list |-> scc_list,
      elems |-> elems, frames |-> frames, raised |-> FALSE]

\* The locals before a call and after it.
NoTarjan == [node_st |-> <<>>, idx |-> 0, stack |-> UniqueStack, scc_list |-> <<>>,
             elems |-> <<>>, frames |-> <<>>, raised |-> FALSE]

\* strongconnect, on entry: node_st[v] = (idx, idx); idx += 1; stack.push(v);
\* then the loop over the successors of v starts.
\* strongconnect entered whatever the depth of the call stack
sc_enter_unlimited(t, vs, v) ==
    LET p == push(t.stack, v)
    IN  [t EXCEPT !.node_st = Put(@, v, <<t.idx, t.idx>>),
                  !.idx = @ + 1,
                  !.stack = p.s,
                  !.raised = p.raised,
                  !.frames = Append(@, [v |-> v, todo |-> vs[v].successors])]

\* The call itself raises RecursionError when the call stack has no room for
\* one more strongconnect.
sc_enter(t, vs, v) ==
    LET p == push(t.stack, v)
    IN  IF Len(t.frames) >= limit THEN [t EXCEPT !.raised = TRUE]
        ELSE [t EXCEPT !.node_st = Put(@, v, <<t.idx, t.idx>>),
                       !.idx = @ + 1,
                       !.stack = p.s,
                       !.raised = p.raised,
                       !.frames = Append(@, [v |-> v, todo |-> vs[v].successors])]

\* the caller lowered by the callee's discovery index instead of its low-link
low_link_after_call_idx(st, v, w) == Put(st, v, <<st[v][1], Min(st[v][2], st[w][1])>>)

\* After strongconnect(w) returns: node_st[v] = (v_idx, min(v_ll, w_ll))
low_link_after_call(st, v, w) == Put(st, v, <<st[v][1], Min(st[v][2], st[w][2])>>)

\* the low-link set to w's index without taking the minimum
low_link_on_stack_set(st, v, w) == Put(st, v, <<st[v][1], st[w][1]>>)

\* w is on the stack: node_st[v] = (v_idx, min(v_ll, w_idx))
low_link_on_stack(st, v, w) == Put(st, v, <<st[v][1], Min(st[v][2], st[w][1])>>)

\* One pass of `for w in self.vertices[v].successors` in the innermost call.
sc_visit(t, vs, w) ==
    LET n == Len(t.frames)
        v == t.frames[n].v
        t1 == [t EXCEPT !.frames[n].todo = @ \ {w}]
    IN  IF w \notin DOMAIN t.node_st THEN sc_enter(t1, vs, w)
        ELSE IF contains(t.stack, w)
             THEN [t1 EXCEPT !.node_st = low_link_on_stack(@, v, w)]
             ELSE t1

\* if v_idx == v_ll
is_root(st, v) == st[v][1] = st[v][2]

\* one pop in place of the loop
pop_scc_one(s, v, scc) ==
    LET p == pop(s)
    IN  [s |-> p.s, scc |-> IF p.raised THEN scc ELSE Append(scc, p.ret),
         raised |-> p.raised]

\* while True: w = stack.pop(); scc.append(w); if w == v: break
RECURSIVE pop_scc(_, _, _)
pop_scc(s, v, scc) ==
    LET p == pop(s)
    IN  IF p.raised THEN [s |-> p.s, scc |-> scc, raised |-> TRUE]
        ELSE IF p.ret = v THEN [s |-> p.s, scc |-> Append(scc, p.ret), raised |-> FALSE]
        ELSE pop_scc(p.s, v, Append(scc, p.ret))

\* The end of the innermost call: the component is popped when v is its root,
\* the call returns, and the caller (if any) lowers its own low-link.
sc_exit(t) ==
    LET n == Len(t.frames)
        v == t.frames[n].v
        r == pop_scc(t.stack, v, <<>>)
        t1 == IF is_root(t.node_st, v)
              THEN [t EXCEPT !.stack = r.s,
                             !.scc_list = Append(@, r.scc),
                             !.raised = r.raised]
              ELSE t
        t2 == [t1 EXCEPT !.frames = SubSeq(@, 1, n - 1)]
    IN  IF n = 1 THEN t2
        ELSE [t2 EXCEPT !.node_st = low_link_after_call(@, t.frames[n - 1].v, v)]

\* for e in elems: if not e in node_st: strongconnect(e)
root_next(t, vs) ==
    LET e == Head(t.elems)
        t1 == [t EXCEPT !.elems = Tail(@)]
    IN  IF e \notin DOMAIN t.node_st THEN sc_enter(t1, vs, e) ELSE t1

SetTarjan(t) ==
    /\ node_st' = t.node_st
    /\ idx' = t.idx
    /\ stack' = t.stack
    /\ scc_list' = t.scc_list
    /\ elems' = t.elems
    /\ frames' = t.frames

\* A step inside tarjans: it goes on, or an exception ends the call.
Continue(t) ==
    IF t.raised
    THEN /\ SetTarjan(NoTarjan)
         /\ pc' = "idle"
         /\ last' = Call(last.op, last.key, last.use_rng, TRUE, NoRet)
    ELSE /\ SetTarjan(t)
         /\ UNCHANGED <<pc, last>>

\* elems = list(self.vertices.keys()); if use_rng: random.shuffle(elems)
root_orders(g, use_rng) == IF use_rng THEN Perms(Range(g.order)) ELSE {g.order}

StartTarjans(op, use_rng) ==
    /\ \E es \in root_orders(G, use_rng) : SetTarjan([NoTarjan EXCEPT !.elems = es])
    /\ pc' = "tarjans"
    /\ last' = Call(op, "-", use_rng, FALSE, NoRet)

TarjansCall(use_rng) ==
    /\ pc = "idle"
    /\ StartTarjans("tarjans", use_rng)
    /\ UNCHANGED <<graph, walk, answers, limit>>

\* is_cyclic: the self-loop flag answers at once, otherwise tarjans runs
IsCyclicCall(use_rng) ==
    /\ pc = "idle"
    /\ IF direct_cyclic
       THEN /\ last' = Call("is_cyclic", "-", use_rng, FALSE, Bool(TRUE))
            /\ answers' = answers \cup {<<use_rng, TRUE>>}
            /\ UNCHANGED <<pc, tarjan>>
       ELSE /\ StartTarjans("is_cyclic", use_rng)
            /\ UNCHANGED answers
    /\ UNCHANGED <<graph, walk, limit>>

RootNext ==
    /\ pc = "tarjans"
    /\ frames = <<>>
    /\ elems # <<>>
    /\ Continue(root_next(T, vertices))
    /\ UNCHANGED <<graph, walk, answers, limit>>

Visit ==
    /\ pc = "tarjans"
    /\ frames # <<>>
    /\ \E w \in frames[Len(frames)].todo : Continue(sc_visit(T, vertices, w))
    /\ UNCHANGED <<graph, walk, answers, limit>>

StrongconnectReturn ==
    /\ pc = "tarjans"
    /\ frames # <<>>
    /\ frames[Len(frames)].todo = {}
    /\ Continue(sc_exit(T))
    /\ UNCHANGED <<graph, walk, answers, limit>>

\* the comparison turned into "more components than vertices"
is_cyclic_result_gt(sccs, vs) == Len(sccs) > Cardinality(DOMAIN vs)

\* is_cyclic: return len(self.tarjans(use_rng)) != len(self.vertices)
is_cyclic_result(sccs, vs) == Len(sccs) # Cardinality(DOMAIN vs)

TarjansReturn ==
    /\ pc = "tarjans"
    /\ frames = <<>>
    /\ elems = <<>>
    /\ IF last.op = "is_cyclic"
       THEN LET ret == is_cyclic_result(scc_list, vertices)
            IN  /\ last' = Call(last.op, "-", last.use_rng, FALSE, Bool(ret))
                /\ answers' = answers \cup {<<last.use_rng, ret>>}
       ELSE /\ last' = Call(last.op, "-", last.use_rng, FALSE, SccList(scc_list))
            /\ UNCHANGED answers
    /\ pc' = "idle"
    /\ SetTarjan(NoTarjan)
    /\ UNCHANGED <<graph, walk, limit>>

\* ------------------------------------------------------------------ traversal

\* both traversals following .successors
adjacent_successors(vs, op, key) == vs[key].successors

\* The adjacency set a traversal follows: get_all_successors reads
\* .successors, get_all_predecessors reads .predecessors.
adjacent(vs, op, key) ==
    IF op = "get_all_successors" THEN vs[key].successors ELSE vs[key].predecessors

\* list(s) of a set s: its members, each once, in the set's iteration order.
list_of(s) == Perms(s)

\* elem = stack.pop(); stack.extend(self.vertices[elem].<adjacent>);
\* successors.add(elem) -- `ext` is the adjacency set in iteration order
walk_step(w, ext) ==
    LET n == Len(w.work)
        elem == w.work[n]
    IN  [work |-> SubSeq(w.work, 1, n - 1) \o ext, found |-> w.found \cup {elem}]

\* get_all_successors(key) / get_all_predecessors(key), up to the loop:
\* self.vertices[key] raises KeyError for an absent key.
GetAllCall(op, key) ==
    /\ pc = "idle"
    /\ IF key \notin DOMAIN vertices
       THEN /\ last' = Call(op, key, FALSE, TRUE, NoRet)
            /\ UNCHANGED <<pc, walk>>
       ELSE /\ \E init \in list_of(adjacent(vertices, op, key)) : work' = init
            /\ found' = {}
            /\ passes' = 0
            /\ pc' = "get_all"
            /\ last' = Call(op, key, FALSE, FALSE, NoRet)
    /\ UNCHANGED <<graph, tarjan, answers, limit>>

\* One pass of `while stack`.
GetAllStep ==
    /\ pc = "get_all"
    /\ work # <<>>
    /\ \E ext \in list_of(adjacent(vertices, last.op, work[Len(work)])) :
          LET w == walk_step([work |-> work, found |-> found], ext)
          IN  /\ Len(w.work) <= MaxWork
              /\ work' = w.work
              /\ found' = w.found
    /\ passes' = 1 - passes
    /\ UNCHANGED <<graph, tarjan, answers, last, pc, limit>>

\* return list(successors)
GetAllReturn ==
    /\ pc = "get_all"
    /\ work = <<>>
    /\ \E ret \in list_of(found) :
          last' = Call(last.op, last.key, FALSE, FALSE, KeyList(ret))
    /\ pc' = "idle"
    /\ work' = <<>>
    /\ found' = {}
    /\ passes' = 0
    /\ UNCHANGED <<graph, tarjan, answers, limit>>

\* get_direct_successors(key) / get_direct_predecessors(key):
\* list(self.vertices[key].successors), KeyError for an absent key.
direct(vs, op, key) ==
    IF op = "get_direct_successors" THEN vs[key].successors ELSE vs[key].predecessors

GetDirect(op, key) ==
    /\ pc = "idle"
    /\ IF key \notin DOMAIN vertices
       THEN last' = Call(op, key, FALSE, TRUE, NoRet)
       ELSE \E ret \in list_of(direct(vertices, op, key)) :
               last' = Call(op, key, FALSE, FALSE, KeyList(ret))
    /\ UNCHANGED <<graph, pc, tarjan, walk, answers, limit>>

\* ------------------------------------------------------------------ specification

\* The recursion limit of the specifications below leaves room for the
\* deepest walk of the graphs they build, as Python's default of 1000 does
\* for the graphs of all tests but test_reaching_recursion_depth.
Roomy == Cardinality(Keys)

Init ==
    /\ vertices = NewGraph.vertices
    /\ order = NewGraph.order
    /\ direct_cyclic = NewGraph.direct_cyclic
    /\ last = Call("init", "-", FALSE, FALSE, NoRet)
    /\ pc = "idle"
    /\ node_st = NoTarjan.node_st
    /\ idx = NoTarjan.idx
    /\ stack = NoTarjan.stack
    /\ scc_list = NoTarjan.scc_list
    /\ elems = NoTarjan.elems
    /\ frames = NoTarjan.frames
    /\ work = <<>>
    /\ found = {}
    /\ passes = 0
    /\ answers = {}
    /\ limit = Roomy

\* The same start with a low recursion limit.
InitLow ==
    /\ vertices = NewGraph.vertices
    /\ order = NewGraph.order
    /\ direct_cyclic = NewGraph.direct_cyclic
    /\ last = Call("init", "-", FALSE, FALSE, NoRet)
    /\ pc = "idle"
    /\ node_st = NoTarjan.node_st
    /\ idx = NoTarjan.idx
    /\ stack = NoTarjan.stack
    /\ scc_list = NoTarjan.scc_list
    /\ elems = NoTarjan.elems
    /\ frames = NoTarjan.frames
    /\ work = <<>>
    /\ found = {}
    /\ passes = 0
    /\ answers = {}
    /\ limit = LowLimit

\* Vertices with any value, and single edges between them.
Next ==
    \/ \E k \in Keys, v \in Values : AddVertex(k, v)
    \/ \E d, s \in ArgKeys : AddEdge(d, s)

Spec == Init /\ [][Next]_vars

\* Vertices with the default value, and edges added one at a time or several
\* at a time, in both calling conventions of add_edges.
NextEdges ==
    \/ \E k \in Keys : AddVertex(k, "None")
    \/ \E d, s \in ArgKeys : AddEdge(d, s)
    \/ \E d \in ArgKeys, srcs \in EdgeArgs : AddEdges(d, srcs)

SpecEdges == Init /\ [][NextEdges]_vars

\* Vertices with any value, added by add_vertex or by indexed write, read by
\* indexed read, and single edges between them.
NextItems ==
    \/ \E k \in Keys, v \in Values : AddVertex(k, v)
    \/ \E k \in Keys, v \in Values : SetItem(k, v)
    \/ \E k \in ArgKeys : GetItem(k)
    \/ \E d, s \in Keys : AddEdge(d, s)

SpecItems == Init /\ [][NextItems]_vars

\* Building a graph of vertices with the default value.
Build ==
    \/ \E k \in Keys : AddVertex(k, "None")
    \/ \E d, s \in ArgKeys : AddEdge(d, s)
    \/ \E d \in Keys, ks \in SrcLists : AddEdges(d, AsList(ks))

\* The steps of a running tarjans().
TarjanSteps ==
    \/ RootNext
    \/ Visit
    \/ StrongconnectReturn
    \/ TarjansReturn

\* Such graphs, and tarjans() on them.
NextTarjan ==
    \/ Build
    \/ \E r \in BOOLEAN : TarjansCall(r)
    \/ TarjanSteps

SpecTarjan == Init /\ [][NextTarjan]_vars

\* Such graphs, and is_cyclic() on them.
NextCyclic ==
    \/ Build
    \/ \E r \in BOOLEAN : IsCyclicCall(r)
    \/ TarjanSteps

SpecCyclic == Init /\ [][NextCyclic]_vars

\* Such graphs, and get_all_successors / get_all_predecessors on them.
NextWalk ==
    \/ Build
    \/ \E k \in ArgKeys : GetAllCall("get_all_successors", k)
    \/ \E k \in ArgKeys : GetAllCall("get_all_predecessors", k)
    \/ GetAllStep
    \/ GetAllReturn

SpecWalk == Init /\ [][NextWalk]_vars

\* Such graphs and is_cyclic() on them, under the low recursion limit.
NextLow ==
    \/ Build
    \/ \E r \in BOOLEAN : IsCyclicCall(r)
    \/ TarjanSteps

SpecLow == InitLow /\ [][NextLow]_vars

\* Graphs built one vertex and one edge at a time, and every query on them,
\* under the low recursion limit.  The shuffled root orders of tarjans are
\* walked through is_cyclic(True).
NextQueries ==
    \/ \E k \in Keys : AddVertex(k, "None")
    \/ \E d, s \in Keys : AddEdge(d, s)
    \/ TarjansCall(FALSE)
    \/ \E r \in BOOLEAN : IsCyclicCall(r)
    \/ TarjanSteps
    \/ \E k \in ArgKeys : GetDirect("get_direct_successors", k)
    \/ \E k \in ArgKeys : GetDirect("get_direct_predecessors", k)
    \/ \E k \in ArgKeys : GetAllCall("get_all_successors", k)
    \/ \E k \in ArgKeys : GetAllCall("get_all_predecessors", k)
    \/ GetAllStep
    \/ GetAllReturn

SpecQueries == InitLow /\ [][NextQueries]_vars

\* A UniqueStack on its own: constructed, pushed to, popped and peeked.
NextStack ==
    \/ \E it \in Iterables : StackNew(it)
    \/ \E x \in Items : StackPush(x)
    \/ StackPop
    \/ StackPeek

SpecStack == Init /\ [][NextStack]_vars

\* The interpreter always takes the next step of a running traversal.
FairSpecWalk == SpecWalk /\ WF_vars(GetAllStep) /\ WF_vars(GetAllReturn)

\* ------------------------------------------------------------------ graph theory

\* The vertices reachable from the set `frontier` along successor edges, added
\* to `seen`.
RECURSIVE Closure(_, _, _)
Closure(vs, frontier, seen) ==
    LET next == UNION {vs[u].successors : u \in frontier}
    IN  IF next \subseteq seen THEN seen ELSE Closure(vs, next \ seen, seen \cup next)

\* The vertices reachable from u along one or more successor edges.
Reachable(vs, u) == Closure(vs, {u}, {})

\* The vertices from which u is reachable along one or more successor edges.
Reaching(vs, u) == {w \in DOMAIN vs : u \in Reachable(vs, w)}

MutuallyReachable(vs, u, v) == v \in Reachable(vs, u) /\ u \in Reachable(vs, v)

HasSelfLoop(vs) == \E u \in DOMAIN vs : u \in vs[u].successors

HasDirectedCycle(vs) ==
    \/ HasSelfLoop(vs)
    \/ \E u, v \in DOMAIN vs : u # v /\ MutuallyReachable(vs, u, v)

NoRepeats(s) == \A i, j \in DOMAIN s : s[i] = s[j] => i = j

\* The call `op` has just returned.
Returned(op) == pc = "idle" /\ last.op = op /\ ~last.raised

\* ------------------------------------------------------------------ claims

\* C1: whenever is_cyclic() returns, it returns true if and only if the graph
\* has a self-loop or two distinct mutually reachable vertices; so it returns
\* false for the empty graph and for a graph with no edges.
C1_IsCyclicIffCycle ==
    Returned("is_cyclic") => (last.ret.bool <=> HasDirectedCycle(vertices))

\* C1 witness: is_cyclic() ran tarjans on three vertices and found a cycle
\* that is no self-loop.
C1_Witness ==
    /\ Returned("is_cyclic")
    /\ last.ret.bool
    /\ ~direct_cyclic
    /\ Cardinality(DOMAIN vertices) = 3

\* C2: all is_cyclic() calls made on one graph, with use_rng or without and
\* whatever order the roots and the successors were iterated in, returned the
\* same boolean.
C2_SameAnswerEveryOrder == \A p, q \in answers : p[2] = q[2]

\* C2 witness: on a graph with edges and no self-loop, is_cyclic(True) and
\* is_cyclic(False) have both returned.
C2_Witness ==
    /\ pc = "idle"
    /\ ~direct_cyclic
    /\ \E u \in DOMAIN vertices : vertices[u].successors # {}
    /\ \E p, q \in answers : p[1] /\ ~q[1]

\* The components of the list `sccs` that hold the key k, as positions.
Places(sccs, k) ==
    {<<i, j>> \in (1..Len(sccs)) \X (1..Cardinality(Keys)) :
        j <= Len(sccs[i]) /\ sccs[i][j] = k}

InSameComponent(sccs, u, v) ==
    \E i \in 1..Len(sccs) : u \in Range(sccs[i]) /\ v \in Range(sccs[i])

\* C3: whenever tarjans() returns, its components partition the vertex set
\* (every key is in exactly one component, once, and nothing else is), and two
\* distinct vertices are in one component exactly when each is reachable from
\* the other.
C3_SccPartition ==
    Returned("tarjans") =>
        /\ \A k \in DOMAIN vertices : Cardinality(Places(last.ret.sccs, k)) = 1
        /\ \A i \in 1..Len(last.ret.sccs) : Range(last.ret.sccs[i]) \subseteq DOMAIN vertices
        /\ \A i \in 1..Len(last.ret.sccs) : last.ret.sccs[i] # <<>>
        /\ \A u, v \in DOMAIN vertices :
              u # v => (InSameComponent(last.ret.sccs, u, v)
                          <=> MutuallyReachable(vertices, u, v))

\* C3 witness: tarjans(use_rng=True) returned a component of two vertices and
\* a component of one.
C3_Witness ==
    /\ Returned("tarjans")
    /\ last.use_rng
    /\ \E i, j \in 1..Len(last.ret.sccs) : Len(last.ret.sccs[i]) = 2 /\ Len(last.ret.sccs[j]) = 1

\* C4: whenever get_all_successors(k) returns, its list holds without repeats
\* exactly the vertices reachable from k along one or more edges, k excluded;
\* whenever get_all_predecessors(k) returns, its list holds without repeats
\* exactly the vertices from which k is reachable, k excluded.
C4_TransitiveClosure ==
    /\ Returned("get_all_successors") =>
          /\ NoRepeats(last.ret.keys)
          /\ Range(last.ret.keys) = Reachable(vertices, last.key) \ {last.key}
    /\ Returned("get_all_predecessors") =>
          /\ NoRepeats(last.ret.keys)
          /\ Range(last.ret.keys) = Reaching(vertices, last.key) \ {last.key}

\* C4 witness: get_all_predecessors returned two vertices, one of them reached
\* along two paths.
C4_Witness ==
    /\ Returned("get_all_predecessors")
    /\ Len(last.ret.keys) = 2
    /\ \E u \in Range(last.ret.keys) : Cardinality(vertices[u].successors) = 2

\* The traversal is at the bound the work list is followed to.
WorkCut ==
    /\ pc = "get_all"
    /\ work # <<>>
    /\ Len(work) - 1 + Cardinality(adjacent(vertices, last.op, work[Len(work)])) > MaxWork

\* The bound cuts a traversal only on a graph with a cycle on the paths from
\* (or to) the key: a traversal that would return is followed to its return.
WorkCutOnlyOnCycle ==
    WorkCut => \E u \in Reachable(vertices, last.key) \cup Reaching(vertices, last.key) :
                  u \in Reachable(vertices, u)

\* C5: every call of get_all_successors / get_all_predecessors on an existing
\* key eventually returns (a run that is followed no further because of
\* MaxWork is counted as returning).
C5_GetAllReturns == (pc = "get_all") ~> (pc = "idle" \/ WorkCut)

\* Some vertex has an edge to another vertex.
HasEdge == \E u \in DOMAIN vertices : vertices[u].successors \ {u} # {}

\* Some vertex carries a value other than None.
HasValue == \E u \in DOMAIN vertices : vertices[u].value # "None"

\* C6: a failed mutation leaves the graph as it was: add_vertex with a key
\* that exists raises, add_edge with an absent src or dst raises (also when
\* src == dst), and a step of add_vertex or add_edge that raised changed
\* neither the vertices, their values and adjacency sets, their order, nor
\* direct_cyclic.
C6_FailedMutationChangesNothing ==
    [][/\ \A k \in Keys, v \in Values :
             (AddVertex(k, v) /\ k \in DOMAIN vertices) => last'.raised
       /\ \A d, s \in ArgKeys :
             (AddEdge(d, s) /\ (s \notin DOMAIN vertices \/ d \notin DOMAIN vertices))
                 => last'.raised
       /\ (last'.op \in {"add_vertex", "add_edge"} /\ last'.raised)
             => UNCHANGED graph]_vars

\* C6 witness: add_edge has raised on a graph that has an edge, a value and
\* no self-loop.
C6_Witness ==
    /\ last.op = "add_edge"
    /\ last.raised
    /\ HasEdge
    /\ HasValue
    /\ ~direct_cyclic

\* C7: for all vertices u and v, v is a successor of u exactly when u is a
\* predecessor of v.
C7_AdjacencySymmetric ==
    \A u, v \in ArgKeys :
        (u \in DOMAIN vertices /\ v \in vertices[u].successors)
            <=> (v \in DOMAIN vertices /\ u \in vertices[v].predecessors)

\* C7 witness: a call has raised on a graph with an edge between two vertices
\* and a self-loop.
C7_Witness ==
    /\ last.raised
    /\ HasEdge
    /\ HasSelfLoop(vertices)

\* C8: direct_cyclic is false in a new graph, is true after every successful
\* add_edge(k, k), never goes back to false, is true exactly when some vertex
\* is its own successor, and while it is true is_cyclic() returns true.
C8_DirectCyclic ==
    /\ ~direct_cyclic
    /\ [](direct_cyclic <=> HasSelfLoop(vertices))
    /\ []((Returned("is_cyclic") /\ direct_cyclic) => last.ret.bool)
    /\ [][/\ direct_cyclic => direct_cyclic'
          /\ \A k \in ArgKeys : (AddEdge(k, k) /\ ~last'.raised) => direct_cyclic']_vars

\* C8 witness: is_cyclic() has returned true on a graph of three vertices whose
\* only edge is a self-loop.
C8_Witness ==
    /\ Returned("is_cyclic")
    /\ last.ret.bool
    /\ direct_cyclic
    /\ Cardinality(DOMAIN vertices) = 3
    /\ ~HasEdge

\* C9: a successful add_edge(dst, src) adds dst to src's successors and src to
\* dst's predecessors and changes nothing else: not the vertex set or its
\* order, no key or value, no other adjacency set, and direct_cyclic only
\* when src == dst; when the edge was there already, no error is raised and
\* the graph is unchanged.
C9_AddEdgeFrame ==
    [][\A d, s \in ArgKeys :
          /\ (AddEdge(d, s) /\ ~last'.raised) =>
                /\ DOMAIN vertices' = DOMAIN vertices
                /\ order' = order
                /\ \A k \in DOMAIN vertices :
                      /\ vertices'[k].key = vertices[k].key
                      /\ vertices'[k].value = vertices[k].value
                      /\ vertices'[k].successors =
                            vertices[k].successors \cup (IF k = s THEN {d} ELSE {})
                      /\ vertices'[k].predecessors =
                            vertices[k].predecessors \cup (IF k = d THEN {s} ELSE {})
                /\ (s # d => direct_cyclic' = direct_cyclic)
          /\ (AddEdge(d, s) /\ s \in DOMAIN vertices /\ d \in vertices[s].successors)
                => (~last'.raised /\ UNCHANGED graph)]_vars

\* C9 witness: add_edge has succeeded on a graph with a value where some
\* vertex has two predecessors and there is no self-loop.
C9_Witness ==
    /\ last.op = "add_edge"
    /\ ~last.raised
    /\ HasValue
    /\ ~direct_cyclic
    /\ \E u \in DOMAIN vertices : Cardinality(vertices[u].predecessors) = 2

\* C10: add_edges(dst, k1, ..., kn) and add_edges(dst, [k1, ..., kn]) each
\* leave the graph as the calls add_edge(dst, k1), ..., add_edge(dst, kn) made
\* in that order leave it, for keys of every type.
C10_AddEdgesIsAddEdgeEach ==
    [][\A d \in ArgKeys, ks \in SrcLists :
          /\ AddEdges(d, Positional(ks)) => G' = add_edge_each(G, d, ks).g
          /\ AddEdges(d, AsList(ks)) => G' = add_edge_each(G, d, ks).g]_vars

\* C11: in every state of a UniqueStack (after a constructor call that
\* returned or raised, and after every push, pop and peek, failed ones
\* included) the membership set is exactly the set of elements of the
\* sequence, the sequence holds no element twice, and `x in stack` is true
\* exactly for the elements of the sequence.
C11_StackSetIsStack ==
    /\ stack.stackset = Range(stack.stack)
    /\ NoRepeats(stack.stack)
    /\ Len(stack.stack) = Cardinality(stack.stackset)
    /\ \A x \in Items : contains(stack, x) <=> x \in Range(stack.stack)

\* a push of a duplicate has just failed on a stack of two elements
C11_Witness ==
    /\ last.op = "push" /\ last.raised
    /\ Len(stack.stack) = 2
    /\ stack.stack[1] = "b"

\* C12: push of an element already on the stack raises and changes nothing,
\* any other push makes the element the new tail; pop of an empty stack
\* raises and leaves it empty, any other pop removes and returns the tail
\* (the most recently pushed element not yet popped) and clears its
\* membership; peek returns the tail and changes nothing, and raises on an
\* empty stack.
C12_StackDiscipline ==
    [][/\ \A x \in Items : StackPush(x) =>
             IF x \in Range(stack.stack)
             THEN last'.raised /\ stack' = stack
             ELSE /\ ~last'.raised
                  /\ stack'.stack = Append(stack.stack, x)
                  /\ contains(stack', x)
       /\ StackPop =>
             IF stack.stack = <<>>
             THEN last'.raised /\ stack' = stack
             ELSE /\ ~last'.raised
                  /\ last'.ret.value = stack.stack[Len(stack.stack)]
                  /\ stack.stack = Append(stack'.stack, last'.ret.value)
                  /\ ~contains(stack', last'.ret.value)
       /\ StackPeek =>
             /\ stack' = stack
             /\ IF stack.stack = <<>>
                THEN last'.raised
                ELSE ~last'.raised /\ last'.ret.value = stack.stack[Len(stack.stack)]
      ]_vars

\* a peek has answered on a stack of two different elements
C12_Witness ==
    /\ last.op = "peek" /\ ~last.raised
    /\ Len(stack.stack) = 2
    /\ last.ret.value = stack.stack[2]

\* The queries.
QueryOps == {"is_cyclic", "tarjans", "get_direct_successors", "get_direct_predecessors",
             "get_all_successors", "get_all_predecessors"}

\* C13: no step of is_cyclic, tarjans, get_direct_successors,
\* get_direct_predecessors, get_all_successors or get_all_predecessors changes
\* the graph (vertex set, values, successor and predecessor sets,
\* direct_cyclic), whether the call goes on, returns or fails on an unknown key
\* or on recursion exhaustion; and an is_cyclic() that returns gives the answer
\* every earlier is_cyclic() gave on the graph as it is.
C13_QueriesChangeNothing ==
    [][/\ last'.op \in QueryOps => UNCHANGED graph
       /\ (/\ last'.op = "is_cyclic" /\ pc' = "idle" /\ ~last'.raised
           /\ (pc = "tarjans" \/ direct_cyclic))
          => \A p \in answers : p[2] = last'.ret.bool
      ]_vars

\* is_cyclic has failed on recursion exhaustion, on a graph of three vertices
\* on which an earlier is_cyclic returned
C13_Witness ==
    /\ pc = "idle" /\ last.op = "is_cyclic" /\ last.raised
    /\ Cardinality(DOMAIN vertices) = 3
    /\ answers # {}

\* C14: g[key] = value does what add_vertex(key, value) does (the same graph
\* after and the same raise); no step replaces the value stored under a key
\* that is present, and a key that enters the graph holds the value it was
\* inserted with, so g[key] always reads the first value; g[key] returns the
\* stored value, raises for an absent key, and changes nothing either way.
C14_IndexedWriteIsAddVertex ==
    [][/\ \A k \in Keys, v \in Values :
             SetItem(k, v) =>
                 /\ G' = add_vertex(G, k, v).g
                 /\ last'.raised = add_vertex(G, k, v).raised
                 /\ last'.raised <=> k \in DOMAIN vertices
                 /\ k \notin DOMAIN vertices => vertices'[k].value = v
       /\ \A k \in DOMAIN vertices :
             k \in DOMAIN vertices' /\ vertices'[k].value = vertices[k].value
       /\ \A k \in ArgKeys :
             GetItem(k) =>
                 /\ UNCHANGED graph
                 /\ IF k \in DOMAIN vertices
                    THEN ~last'.raised /\ last'.ret.value = vertices[k].value
                    ELSE last'.raised
      ]_vars

\* an indexed write has failed on a key that holds a value other than the
\* default, in a graph with an edge
C14_Witness ==
    /\ last.op = "__setitem__" /\ last.raised
    /\ last.key \in DOMAIN vertices
    /\ vertices[last.key].value = "x"
    /\ \E k \in DOMAIN vertices : vertices[k].successors # {}

\* The graph of test_reaching_recursion_depth: the vertices added one after
\* the other and add_edge(i-1, i) for each consecutive pair, which makes the
\* earlier vertex the only successor of the later one.
IsChain ==
    /\ ~direct_cyclic
    /\ \A i \in 1..Len(order) :
          vertices[order[i]].successors = IF i = 1 THEN {} ELSE {order[i - 1]}

\* Such a chain of more vertices than the call stack has room for.
LongChain == IsChain /\ Len(order) > limit

\* The place of a key in insertion order, and the root the running tarjans
\* started from.
Position(k) == CHOOSE i \in 1..Len(order) : order[i] = k
FirstRoot == CHOOSE k \in DOMAIN node_st : node_st[k][1] = 0

\* C15 as stated: on a chain longer than the recursion limit every is_cyclic()
\* call, with the default root order or a shuffled one, ends in the
\* resource-exhaustion error.
C15_LongChainAlwaysExhausts ==
    (LongChain /\ pc = "idle" /\ last.op = "is_cyclic") => last.raised

\* C15, amended: on a chain longer than the recursion limit L, is_cyclic()
\* ends in the resource-exhaustion error whenever the first root of the
\* (shuffled) order has at least L vertices before it in insertion order;
\* with the default insertion-order roots it does not fail; and whenever it
\* returns it returns False.
C15_LongChainExhaustsFromDeepRoot ==
    [][(LongChain /\ pc = "tarjans" /\ pc' = "idle" /\ last.op = "is_cyclic") =>
          /\ (node_st # <<>> /\ Position(FirstRoot) > limit) => last'.raised
          /\ ~last.use_rng => ~last'.raised
          /\ ~last'.raised => ~last'.ret.bool
      ]_vars

\* is_cyclic(True) has failed on a chain longer than the recursion limit
C15_Witness ==
    /\ LongChain
    /\ pc = "idle" /\ last.op = "is_cyclic" /\ last.use_rng /\ last.raised

\* C16: during one get_all_successors or get_all_predecessors call no vertex
\* is popped from the work list and expanded a second time.  Stated for the
\* graphs without a directed cycle, DAGs with several paths to a vertex among
\* them: a pass of the loop never pops a vertex that an earlier pass of the
\* same call has popped (every popped vertex is in the result set).
C16_EachVertexExpandedOnce ==
    [][(GetAllStep /\ ~HasDirectedCycle(vertices)) => work[Len(work)] \notin found]_vars

\* The visited vertices of the running tarjans().
Visited == DOMAIN node_st

\* C17: at every step of one tarjans() call the counter idx equals the number
\* of visited vertices and never decreases; the discovery indices of the
\* visited vertices are distinct; a vertex's discovery index is assigned
\* once, from the counter, and never changes; its low-link starts equal to
\* its discovery index, never increases and is never above the discovery
\* index.
C17_IndexAndLowLink ==
    /\ [](pc = "tarjans" =>
            /\ idx = Cardinality(Visited)
            /\ \A v \in Visited :
                  /\ node_st[v][1] \in 0..(idx - 1)
                  /\ node_st[v][2] <= node_st[v][1]
                  /\ \A w \in Visited : node_st[v][1] = node_st[w][1] => v = w)
    /\ [][(pc = "tarjans" /\ pc' = "tarjans") =>
            /\ idx' >= idx
            /\ Visited \subseteq DOMAIN node_st'
            /\ \A v \in Visited :
                  /\ node_st'[v][1] = node_st[v][1]
                  /\ node_st'[v][2] <= node_st[v][2]
            /\ \A v \in DOMAIN node_st' \ Visited :
                  /\ node_st'[v] = <<idx, idx>>
                  /\ idx' = idx + 1
          ]_vars

\* three vertices are visited and a low-link has gone below its index by two
C17_Witness ==
    /\ pc = "tarjans"
    /\ idx = 3
    /\ \E v \in Visited : node_st[v][1] = 2 /\ node_st[v][2] = 0

\* The vertices in an emitted component, and the visited ones in none.
Emitted == UNION {Range(scc_list[i]) : i \in 1..Len(scc_list)}
Open == Visited \ Emitted

\* C18: between the steps of one tarjans() call the UniqueStack holds exactly
\* the visited vertices that are in no emitted component, in discovery order;
\* no push inside strongconnect raises and no pop meets an empty stack (the
\* call never fails); and the stack is empty when tarjans returns.
C18_StackIsOpenPath ==
    /\ [](pc = "tarjans" =>
            /\ Range(stack.stack) = Open
            /\ stack.stackset = Open
            /\ \A i, j \in 1..Len(stack.stack) :
                  i < j => node_st[stack.stack[i]][1] < node_st[stack.stack[j]][1])
    /\ [](last.op = "tarjans" => ~last.raised)
    /\ [][(pc = "tarjans" /\ pc' = "idle") => (stack.stack = <<>> /\ Open = {})]_vars

\* one component is emitted and two visited vertices are on the stack
C18_Witness ==
    /\ pc = "tarjans"
    /\ Len(scc_list) = 1
    /\ Len(stack.stack) = 2

\* The place of the first of the keys ks for which add_edge(dst, key) fails on
\* the graph g, 0 when there is none.
FirstFailing(g, dst, ks) ==
    LET bad == {i \in 1..Len(ks) : add_edge(g, dst, ks[i]).raised}
    IN  IF bad = {} THEN 0 ELSE CHOOSE i \in bad : \A j \in bad : i <= j

\* The graph g with exactly the edges k -> dst added for the keys k of `pre`.
WithEdgesInto(g, dst, pre) ==
    [g EXCEPT !.direct_cyclic = @ \/ dst \in Range(pre),
              !.vertices = [k \in DOMAIN @ |->
                  [@[k] EXCEPT !.successors = IF k \in Range(pre) THEN @ \cup {dst} ELSE @,
                               !.predecessors = IF k = dst THEN @ \cup Range(pre) ELSE @]]]

\* C19: when ki is the first of the keys k1..kn for which add_edge(dst, ki)
\* fails, add_edges(dst, k1, ..., kn) raises and leaves the graph with exactly
\* the edges k1 -> dst, ..., k(i-1) -> dst added (direct_cyclic set if one of
\* them is dst), no edge for ki..kn, and nothing else changed.
C19_AddEdgesStopsAtFirstFailure ==
    [][\A d \in ArgKeys, ks \in SrcLists :
          (AddEdges(d, Positional(ks)) /\ FirstFailing(G, d, ks) # 0) =>
              /\ last'.raised
              /\ G' = WithEdgesInto(G, d, SubSeq(ks, 1, FirstFailing(G, d, ks) - 1))]_vars

\* C20: no step (a successful or failed add_vertex, add_edge or add_edges, or
\* a step of is_cyclic) takes a vertex or an edge away, lowers len(g) or
\* clears direct_cyclic; and from a state in which is_cyclic() has returned
\* True on, every is_cyclic() that returns, returns True.
C20_GrowsAndStaysCyclic ==
    /\ [][/\ DOMAIN vertices \subseteq DOMAIN vertices'
          /\ Cardinality(DOMAIN vertices') >= Cardinality(DOMAIN vertices)
          /\ \A k \in DOMAIN vertices :
                /\ vertices[k].successors \subseteq vertices'[k].successors
                /\ vertices[k].predecessors \subseteq vertices'[k].predecessors
          /\ direct_cyclic => direct_cyclic'
         ]_vars
    /\ []((Returned("is_cyclic") /\ last.ret.bool)
            => [](Returned("is_cyclic") => last.ret.bool))

\* is_cyclic() has returned True a second time, with the other root order, on
\* a graph of three vertices without a self-loop
C20_Witness ==
    /\ Returned("is_cyclic") /\ last.ret.bool
    /\ ~direct_cyclic
    /\ Cardinality(DOMAIN vertices) = 3
    /\ answers = {<<FALSE, TRUE>>, <<TRUE, TRUE>>}

====
